---- MODULE Spec2Model ----
(***************************************************************************)
(* Model of lab3-sample-app/app/app.py: the module-level bootstrap         *)
(* (configuration, validation, storage client construction, app.run) and   *)
(* the three storage-backed Flask handlers /health, /list and /upload,     *)
(* running concurrently against one storage account.                       *)
(*                                                                         *)
(* Text that the code formats or measures (the ISO timestamp, the blob     *)
(* name, the uploaded content) is a sequence of Unicode code points;       *)
(* configuration values, which the code only passes around, are strings.   *)
(* A Python value that may be None is a sequence of length at most one.    *)
(***************************************************************************)
EXTENDS Integers, Sequences, FiniteSets, TLC

(* ------------------------------ bounds -------------------------------- *)

\* Number of requests the service receives; they may all be in flight at once.
MaxRequests == 2
\* The clock advances at most this many microseconds.
MaxClock == 1

(* --------------------------- Python values ---------------------------- *)

None == <<>>
Some(x) == <<x>>
Get(o) == o[1]

\* Python truthiness of an optional string: None and "" are falsy.
Truthy(o) == o # None /\ Get(o) # ""

(* ------------------------------- text --------------------------------- *)

RECURSIVE Pow10(_)
Pow10(n) == IF n = 0 THEN 1 ELSE 10 * Pow10(n - 1)

\* Format spec "%0<w>d": n in decimal, zero-padded to w digits.
ZeroPad(n, w) == [i \in 1..w |-> 48 + ((n \div Pow10(w - i)) % 10)]

\* str.encode('utf-8') of one code point.
Utf8Char(c) ==
    IF c < 128 THEN <<c>>
    ELSE IF c < 2048 THEN <<192 + (c \div 64), 128 + (c % 64)>>
    ELSE IF c < 65536
         THEN <<224 + (c \div 4096), 128 + ((c \div 64) % 64), 128 + (c % 64)>>
         ELSE <<240 + (c \div 262144), 128 + ((c \div 4096) % 64),
                128 + ((c \div 64) % 64), 128 + (c % 64)>>

\* str.encode('utf-8'): what upload_blob sends for a str argument.
RECURSIVE Utf8(_)
Utf8(s) == IF s = <<>> THEN <<>> ELSE Utf8Char(Head(s)) \o Utf8(Tail(s))

(* ------------------------------ clock --------------------------------- *)

\* Microseconds since midnight at which the model's clock starts:
\* 00:00:59.999999, so that the readings cross a whole second.
ClockBase == 60 * 1000000 - 1

\* datetime.utcnow() when the system clock stands at ClockBase + c.
UtcNow(c) ==
    LET us == ClockBase + c
        s  == us \div 1000000
    IN  [year |-> 2024, month |-> 1, day |-> 1,
         hour |-> s \div 3600, minute |-> (s \div 60) % 60, second |-> s % 60,
         microsecond |-> us % 1000000]

\* datetime.isoformat(): YYYY-MM-DDTHH:MM:SS, followed by .ffffff only when
\* the microsecond is not zero.
IsoFormat(d) ==
    ZeroPad(d.year, 4) \o <<45>> \o ZeroPad(d.month, 2) \o <<45>> \o ZeroPad(d.day, 2)
    \o <<84>>
    \o ZeroPad(d.hour, 2) \o <<58>> \o ZeroPad(d.minute, 2) \o <<58>> \o ZeroPad(d.second, 2)
    \o (IF d.microsecond # 0 THEN <<46>> \o ZeroPad(d.microsecond, 6) ELSE <<>>)

(* ---------------------------- environment ----------------------------- *)

\* The variables app.py reads, and the two the specification names.
EnvNames == {"AZURE_STORAGE_ACCOUNT_NAME", "AZURE_STORAGE_CONTAINER_NAME",
             "STORAGE_ACCOUNT_NAME", "STORAGE_CONTAINER_NAME"}

\* os.getenv(name): the value, or None when the variable is unset.
GetEnv(e, name) == e[name]

\* os.getenv(name, default).
GetEnvDefault(e, name, default) == IF e[name] = None THEN Some(default) ELSE e[name]

VARIABLES
    env,                    \* os.environ, fixed when the process starts
    phase,                  \* position of the module-level code
    STORAGE_ACCOUNT_NAME,   \* module global, None until assigned
    CONTAINER_NAME,         \* module global, None until assigned
    blob_service_client,    \* module global, None until constructed
    port,                   \* port the Flask server is bound to, None if none
    containers,             \* the storage account: container name -> blobs
    clock,                  \* microseconds the system clock has advanced
    req                     \* the requests in flight, one record per slot

vars == <<env, phase, STORAGE_ACCOUNT_NAME, CONTAINER_NAME, blob_service_client,
          port, containers, clock, req>>

(* ------------------------------ storage ------------------------------- *)

\* The BlobProperties the storage service keeps of a blob made of `bytes`.
Blob(name, bytes, modified, settings) ==
    [name |-> name, size |-> Len(bytes),
     last_modified |-> modified, content_settings |-> settings]

Zeros(n) == [i \in 1..n |-> 0]

\* "file1.txt", "b.bin"
File1Name == <<102, 105, 108, 101, 49, 46, 116, 120, 116>>
BBinName == <<98, 46, 98, 105, 110>>
\* "test-file-" and ".txt"
NamePrefix == <<116, 101, 115, 116, 45, 102, 105, 108, 101, 45>>
NameSuffix == <<46, 116, 120, 116>>

\* Objects the container may hold before the service starts: one without
\* last-modified time and content settings, one whose content settings carry
\* no content type, and one under the name an upload at the second clock
\* reading will use.
File1 == Blob(File1Name, Zeros(10), None, None)
BBin == Blob(BBinName, Zeros(0), Some(UtcNow(0)), Some([content_type |-> None]))
Earlier ==
    Blob(NamePrefix \o IsoFormat(UtcNow(1)) \o NameSuffix, Zeros(1), Some(UtcNow(0)),
         Some([content_type |-> Some("text/plain")]))

\* The container before the service starts, in the order the storage
\* service enumerates it: empty, one object, or two objects whose
\* enumeration order is not the order of their names.
InitListings == { <<>>, <<File1>>, <<Earlier, BBin>> }

\* What a storage request can fail with, whatever the request is.
StorageFaults == {"ServiceRequestError"}

\* The error of one storage request on `container`, None when it succeeds.
StorageError(cs, container, fault) ==
    IF fault # None THEN fault
    ELSE IF Get(container) \notin DOMAIN cs THEN Some("ContainerNotFound")
    ELSE None

Names(blobs) == { blobs[i].name : i \in 1..Len(blobs) }

\* A health check that probes the container by writing a marker blob.
AfterProbeWrite(cs, container) ==
    [cs EXCEPT ![Get(container)] =
        Append(@, [name |-> <<>>, size |-> 0, last_modified |-> None,
                   content_settings |-> None])]

\* State of the account after get_container_properties: a metadata read.
AfterGetContainerProperties(cs, container) == cs

\* State of the account after one page of list_blobs has been fetched.
AfterListBlobs(cs, container) == cs

\* A write that never replaces: the object is added whatever its name.
PutBlobAppend(blobs, b) == Append(blobs, b)

\* The container after a blob is written: an object of the same name is
\* replaced where it stands, a new one comes last in the enumeration.
PutBlob(blobs, b) ==
    IF b.name \in Names(blobs)
    THEN [i \in 1..Len(blobs) |-> IF blobs[i].name = b.name THEN b ELSE blobs[i]]
    ELSE Append(blobs, b)

\* upload_blob(...) without the flag: overwrite is off.
OverwriteOff == FALSE

\* upload_blob(..., overwrite=...): the flag line 247 passes.
Overwrite == TRUE

\* The error of upload_blob(name, overwrite) on `container`, None on success.
UploadError(cs, container, name, overwrite, fault) ==
    IF StorageError(cs, container, fault) # None THEN StorageError(cs, container, fault)
    ELSE IF name \in Names(cs[Get(container)]) /\ ~overwrite THEN Some("BlobAlreadyExists")
    ELSE None

\* State of the account after upload_blob(data) succeeded at clock c.
AfterUploadBlob(cs, container, name, data, c) ==
    [cs EXCEPT ![Get(container)] =
        PutBlob(@, Blob(name, Utf8(data), Some(UtcNow(c)),
                        Some([content_type |-> Some("application/octet-stream")])))]

(* ------------------------------ startup ------------------------------- *)

AccountValues == {None, Some(""), Some("acct1")}
ContainerValues == {None, Some("lab")}

\* The environments the process may be started in.
Environments ==
    { e \in [EnvNames -> AccountValues \cup ContainerValues] :
        /\ e["AZURE_STORAGE_ACCOUNT_NAME"] \in AccountValues
        /\ e["STORAGE_ACCOUNT_NAME"] \in AccountValues
        /\ e["AZURE_STORAGE_CONTAINER_NAME"] \in ContainerValues
        /\ e["STORAGE_CONTAINER_NAME"] \in ContainerValues }

\* The containers that exist in the storage account.
ExistingContainers == {"data", "lab"}

\* Names of the two variables lines 22-23 read, and the default of line 23.
AccountVariable == "AZURE_STORAGE_ACCOUNT_NAME"
ContainerVariable == "AZURE_STORAGE_CONTAINER_NAME"
\* A default that is not the documented one.
DefaultContainerOther == "default"
DefaultContainer == "data"

\* Lines 22-23: the two module globals are read from the environment.
LoadConfig ==
    /\ phase = "import"
    /\ STORAGE_ACCOUNT_NAME' = GetEnv(env, AccountVariable)
    /\ CONTAINER_NAME' = GetEnvDefault(env, ContainerVariable, DefaultContainer)
    /\ phase' = "loaded"
    /\ UNCHANGED <<env, blob_service_client, port, containers, clock, req>>

\* `if STORAGE_ACCOUNT_NAME is None`: an empty name passes.
ConfigValidNotNone(name) == name # None

\* Line 26: `if not STORAGE_ACCOUNT_NAME` is the negation of this.
ConfigValid(name) == Truthy(name)

\* Lines 26-28: ValueError, which ends the import, when the name is falsy.
ValidateConfig ==
    /\ phase = "loaded"
    /\ phase' = IF ConfigValid(STORAGE_ACCOUNT_NAME) THEN "validated" ELSE "config_error"
    /\ UNCHANGED <<env, STORAGE_ACCOUNT_NAME, CONTAINER_NAME, blob_service_client,
                   port, containers, clock, req>>

\* Line 32.
AccountUrl(name) == "https://" \o name \o ".blob.core.windows.net"

\* Lines 32-41: the credential and the client are constructed; an exception
\* of either constructor is logged and raised again, which ends the import.
InitClient ==
    /\ phase = "validated"
    /\ \E ok \in BOOLEAN :
         IF ok
         THEN /\ blob_service_client' =
                    Some([account_url |-> AccountUrl(Get(STORAGE_ACCOUNT_NAME)),
                          credential |-> "DefaultAzureCredential"])
              /\ phase' = "ready"
         ELSE /\ blob_service_client' = None
              /\ phase' = "client_error"
    /\ UNCHANGED <<env, STORAGE_ACCOUNT_NAME, CONTAINER_NAME, port, containers, clock, req>>

\* Line 273: the port app.run binds.
ListenPort == 8080

\* Lines 267-273: app.run binds the port and serves the routes.
Main ==
    /\ phase = "ready"
    /\ port' = Some(ListenPort)
    /\ phase' = "serving"
    /\ UNCHANGED <<env, STORAGE_ACCOUNT_NAME, CONTAINER_NAME, blob_service_client,
                   containers, clock, req>>

(* ------------------------------ requests ------------------------------ *)

Slots == 1..MaxRequests
Routes == {"health", "list", "upload"}
Faults == {None} \cup { Some(f) : f \in StorageFaults }

\* A slot no request occupies. The fields are the handler's locals
\* (timestamp, blob_name, content, blobs), the listing's iterator (cursor),
\* the response (status, body) and a record of what the request did:
\* container it addressed, clock reading of line 238, whether the container
\* is still as it was when the listing began, blobs the iterator yielded,
\* storage operations issued, whether one failed, responses produced.
IdleReq ==
    [route |-> "none", pc |-> "idle", container |-> None, reading |-> None,
     timestamp |-> <<>>, blob_name |-> <<>>, content |-> <<>>,
     blobs |-> <<>>, cursor |-> 0, stable |-> FALSE, yielded |-> <<>>,
     ops |-> 0, failed |-> FALSE, sent |-> 0, status |-> 0, body |-> <<>>]

\* Flask hands a request for one of the three routes to its view function;
\* the slots are numbered in the order the requests arrive.
Dispatch(r) ==
    /\ phase = "serving"
    /\ req[r].pc = "idle"
    /\ \A s \in Slots : s < r => req[s].pc # "idle"
    /\ \E route \in Routes : req' = [req EXCEPT ![r] = [IdleReq EXCEPT !.route = route, !.pc = "try"]]
    /\ UNCHANGED <<env, phase, STORAGE_ACCOUNT_NAME, CONTAINER_NAME, blob_service_client,
                   port, containers, clock>>

\* return jsonify(body), status: the view function returns its one response.
Respond(q, status, body) ==
    [q EXCEPT !.pc = "done", !.sent = @ + 1, !.status = status, !.body = body]

\* An exception no except clause catches leaves the view function.
Escape(q) == [q EXCEPT !.pc = "unhandled"]

\* An except clause that names one error class only.
CaughtNarrow(e) == Get(e) = "ContainerNotFound"

\* `except Exception`: every error of a storage call is an Exception.
Caught(e) == Get(e) \in StorageFaults \cup {"ContainerNotFound", "BlobAlreadyExists"}

\* One storage operation is issued for q on `container`; err is its outcome.
Issued(q, container, err) ==
    [q EXCEPT !.container = container, !.ops = @ + 1, !.failed = @ \/ err # None]

\* datetime.utcnow().isoformat() at clock c.
Now(c) == IsoFormat(UtcNow(c))

(* ------------------------------ /health ------------------------------- *)

\* Lines 188-194.
HealthOk(q, c) ==
    Respond(q, 200,
        [status |-> "healthy", storage_account |-> Get(STORAGE_ACCOUNT_NAME),
         container |-> Get(CONTAINER_NAME), authentication |-> "workload_identity",
         timestamp |-> Now(c)])

\* An except clause that runs the try block once more instead of answering.
HealthExceptRetry(q, e, c) == [q EXCEPT !.pc = "try"]

\* Lines 195-201.
HealthExcept(q, e, c) ==
    Respond(q, 500, [status |-> "unhealthy", error |-> Get(e), timestamp |-> Now(c)])

\* Lines 181-201: get_container_properties on the configured container.
Health(r) ==
    /\ req[r].route = "health" /\ req[r].pc = "try"
    /\ \E fault \in Faults :
         LET err == StorageError(containers, CONTAINER_NAME, fault)
             q   == Issued(req[r], CONTAINER_NAME, err)
         IN  IF err = None
             THEN /\ containers' = AfterGetContainerProperties(containers, CONTAINER_NAME)
                  /\ req' = [req EXCEPT ![r] = HealthOk(q, clock)]
             ELSE /\ containers' = containers
                  /\ req' = [req EXCEPT ![r] =
                                IF Caught(err) THEN HealthExcept(q, err, clock) ELSE Escape(q)]
    /\ UNCHANGED <<env, phase, STORAGE_ACCOUNT_NAME, CONTAINER_NAME, blob_service_client,
                   port, clock>>

(* ------------------------------- /list -------------------------------- *)

\* Lines 211-216: the four fields projected from one BlobProperties.
Descriptor(b) ==
    [name |-> b.name,
     size |-> b.size,
     last_modified |-> IF b.last_modified # None
                       THEN Some(IsoFormat(Get(b.last_modified))) ELSE None,
     content_type |-> IF b.content_settings # None
                      THEN Get(b.content_settings).content_type ELSE None]

\* blobs.insert(0, ...): the newest descriptor comes first.
CollectFront(blobs, b) == <<Descriptor(b)>> \o blobs

\* Line 211: blobs.append(...).
Collect(blobs, b) == Append(blobs, Descriptor(b))

\* Lines 220-225.
ListOk(q, c) ==
    Respond(q, 200,
        [container |-> Get(CONTAINER_NAME), blob_count |-> Len(q.blobs),
         blobs |-> q.blobs, timestamp |-> Now(c)])

\* A failure response that also carries what was collected so far.
ListExceptPartial(q, e, c) ==
    Respond(q, 500, [error |-> Get(e), blob_count |-> Len(q.blobs), blobs |-> q.blobs,
                     timestamp |-> Now(c)])

\* Lines 226-231.
ListExcept(q, e, c) ==
    Respond(q, 500, [error |-> Get(e), timestamp |-> Now(c)])

\* Lines 207-210: blobs = [] and the call of list_blobs(), which returns a
\* lazy iterator and sends nothing yet.
ListOpen(r) ==
    /\ req[r].route = "list" /\ req[r].pc = "try"
    /\ req' = [req EXCEPT ![r] =
                  [Issued(@, CONTAINER_NAME, None) EXCEPT
                      !.pc = "iter", !.blobs = <<>>, !.cursor = 0, !.stable = TRUE]]
    /\ UNCHANGED <<env, phase, STORAGE_ACCOUNT_NAME, CONTAINER_NAME, blob_service_client,
                   port, containers, clock>>

\* Lines 210-231: one turn of the for loop. The iterator fails, yields the
\* next blob, or is exhausted, and then the response is built.
ListNext(r) ==
    /\ req[r].route = "list" /\ req[r].pc = "iter"
    /\ \E fault \in Faults :
         LET q   == req[r]
             err == StorageError(containers, q.container, fault)
         IN  IF err # None
             THEN /\ containers' = containers
                  /\ req' = [req EXCEPT ![r] =
                                LET f == [q EXCEPT !.failed = TRUE]
                                IN  IF Caught(err) THEN ListExcept(f, err, clock) ELSE Escape(f)]
             ELSE /\ containers' = AfterListBlobs(containers, q.container)
                  /\ LET listing == containers[Get(q.container)]
                     IN  IF q.cursor < Len(listing)
                         THEN req' = [req EXCEPT ![r] =
                                         [q EXCEPT !.cursor = @ + 1,
                                                   !.yielded = Append(@, listing[q.cursor + 1]),
                                                   !.blobs = Collect(@, listing[q.cursor + 1])]]
                         ELSE req' = [req EXCEPT ![r] = ListOk(q, clock)]
    /\ UNCHANGED <<env, phase, STORAGE_ACCOUNT_NAME, CONTAINER_NAME, blob_service_client,
                   port, clock>>

(* ------------------------------ /upload ------------------------------- *)

\* "Test file created at " and "\nThis file was uploaded using workload identity!\n"
ContentHead ==
    <<84, 101, 115, 116, 32, 102, 105, 108, 101, 32, 99, 114, 101, 97, 116, 101, 100, 32,
      97, 116, 32>>
ContentTail ==
    <<10, 84, 104, 105, 115, 32, 102, 105, 108, 101, 32, 119, 97, 115, 32, 117, 112, 108,
      111, 97, 100, 101, 100, 32, 117, 115, 105, 110, 103, 32, 119, 111, 114, 107, 108, 111,
      97, 100, 32, 105, 100, 101, 110, 116, 105, 116, 121, 33, 10>>

\* Line 239: f"test-file-{timestamp}.txt".
BlobName(timestamp) == NamePrefix \o timestamp \o NameSuffix

\* Line 240.
Content(timestamp) == ContentHead \o timestamp \o ContentTail

\* A success response stamped like the failure one, with a fresh reading.
UploadStampNow(timestamp, c) == IsoFormat(UtcNow(c))

\* Line 257: the timestamp of the success response, given the local
\* `timestamp` and the clock at the time the response is built.
UploadStamp(timestamp, c) == timestamp

\* Lines 251-258; line 255 is len(content), the number of characters.
UploadOk(q, c) ==
    Respond(q, 200,
        [status |-> "success", blob_name |-> q.blob_name,
         container |-> Get(CONTAINER_NAME), size |-> Len(q.content),
         message |-> "File uploaded successfully using managed identity",
         timestamp |-> UploadStamp(q.timestamp, c)])

\* Lines 259-265.
UploadExcept(q, e, c) ==
    Respond(q, 500, [status |-> "error", error |-> Get(e), timestamp |-> Now(c)])

\* Lines 238-246: the clock is read once; name, content and blob client
\* are built from that reading.
UploadPrepare(r) ==
    /\ req[r].route = "upload" /\ req[r].pc = "try"
    /\ req' = [req EXCEPT ![r] =
                  [@ EXCEPT !.pc = "write", !.reading = Some(clock),
                            !.timestamp = Now(clock),
                            !.blob_name = BlobName(Now(clock)),
                            !.content = Content(Now(clock)),
                            !.container = CONTAINER_NAME]]
    /\ UNCHANGED <<env, phase, STORAGE_ACCOUNT_NAME, CONTAINER_NAME, blob_service_client,
                   port, containers, clock>>

\* Lines 247-265: upload_blob(content, overwrite=True) and the response.
UploadWrite(r) ==
    /\ req[r].route = "upload" /\ req[r].pc = "write"
    /\ \E fault \in Faults :
         LET err == UploadError(containers, req[r].container, req[r].blob_name, Overwrite, fault)
             q   == Issued(req[r], req[r].container, err)
         IN  IF err = None
             THEN /\ containers' = AfterUploadBlob(containers, q.container, q.blob_name,
                                                   q.content, clock)
                  /\ req' = [s \in Slots |->
                                IF s = r THEN UploadOk(q, clock)
                                ELSE [req[s] EXCEPT !.stable = @ /\ containers' = containers]]
             ELSE /\ containers' = containers
                  /\ req' = [req EXCEPT ![r] =
                                IF Caught(err) THEN UploadExcept(q, err, clock) ELSE Escape(q)]
    /\ UNCHANGED <<env, phase, STORAGE_ACCOUNT_NAME, CONTAINER_NAME, blob_service_client,
                   port, clock>>

(* --------------------------- the whole system ------------------------- *)

\* The system clock advances by one microsecond.
Tick ==
    /\ clock < MaxClock
    /\ clock' = clock + 1
    /\ UNCHANGED <<env, phase, STORAGE_ACCOUNT_NAME, CONTAINER_NAME, blob_service_client,
                   port, containers, req>>

\* The process starts in one of `envs`, the default container holding one
\* of `listings`; nothing of the module has run yet.
Boot(envs, listings) ==
    /\ env \in envs
    /\ phase = "import"
    /\ STORAGE_ACCOUNT_NAME = None
    /\ CONTAINER_NAME = None
    /\ blob_service_client = None
    /\ port = None
    /\ \E l \in listings :
         containers = [c \in ExistingContainers |-> IF c = "data" THEN l ELSE <<>>]
    /\ clock = 0
    /\ req = [r \in Slots |-> IdleReq]

\* Every listing, under the environments that set the account name at most.
Init ==
    Boot({ e \in Environments : \A n \in EnvNames \ {"AZURE_STORAGE_ACCOUNT_NAME"} : e[n] = None },
         InitListings)

\* Every environment, the container holding the one object file1.txt.
InitEnv == Boot(Environments, {<<File1>>})

Next ==
    \/ LoadConfig
    \/ ValidateConfig
    \/ InitClient
    \/ Main
    \/ Tick
    \/ \E r \in Slots :
         \/ Dispatch(r)
         \/ Health(r)
         \/ ListOpen(r)
         \/ ListNext(r)
         \/ UploadPrepare(r)
         \/ UploadWrite(r)

Spec == Init /\ [][Next]_vars

SpecEnv == InitEnv /\ [][Next]_vars

(* ------------------------------- claims ------------------------------- *)

\* The blobs of the container request q addressed, as they are now.
Listing(q) == containers[Get(q.container)]

\* C1: every request to /health, /list or /upload gets exactly one response,
\* whatever the storage call did: 200 when it succeeded, 500 when it failed,
\* the body carrying a timestamp in both cases; no storage error leaves a
\* handler uncaught.
C1_OneResponsePerOutcome ==
    \A r \in Slots :
        LET q == req[r]
        IN  /\ q.pc # "unhandled"
            /\ q.failed => q.pc = "done"
            /\ q.sent = (IF q.pc = "done" THEN 1 ELSE 0)
            /\ q.pc = "done" =>
                 /\ q.status = (IF q.failed THEN 500 ELSE 200)
                 /\ "timestamp" \in DOMAIN q.body
                 /\ q.body.timestamp \in { Now(c) : c \in 0..clock }

\* One request answered 500 after its storage call failed, another 200.
C1_Witness ==
    \E r1, r2 \in Slots :
        /\ req[r1].pc = "done" /\ req[r1].failed /\ req[r1].status = 500
        /\ req[r2].pc = "done" /\ ~req[r2].failed /\ req[r2].status = 200
        /\ req[r1].route # req[r2].route

\* C4: on every 200 response of /list, blobs holds one descriptor per object
\* the storage enumeration yielded, in the order it yielded them, and
\* blob_count is the length of blobs; a container that stayed empty gives
\* blob_count 0 and no blobs, one that stayed as it was gives its objects in
\* the container's order.
C4_ListMirrorsEnumeration ==
    \A r \in Slots :
        LET q == req[r]
        IN  (q.route = "list" /\ q.pc = "done" /\ q.status = 200) =>
              /\ q.body.blob_count = Len(q.body.blobs)
              /\ Len(q.body.blobs) = Len(q.yielded)
              /\ \A i \in 1..Len(q.yielded) :
                    /\ q.body.blobs[i].name = q.yielded[i].name
                    /\ q.body.blobs[i].size = q.yielded[i].size
              /\ q.stable =>
                    /\ Len(q.body.blobs) = Len(Listing(q))
                    /\ \A i \in 1..Len(Listing(q)) : q.body.blobs[i].name = Listing(q)[i].name
                    /\ Listing(q) = <<>> => q.body.blob_count = 0 /\ q.body.blobs = <<>>

\* A 200 listing of two objects whose order is not the order of their names.
C4_Witness ==
    \E r \in Slots :
        /\ req[r].route = "list" /\ req[r].pc = "done" /\ req[r].status = 200
        /\ req[r].body.blob_count = 2
        /\ req[r].body.blobs[1].name = Earlier.name
        /\ req[r].body.blobs[2].name = BBinName
        /\ req[r].body.blobs[2].content_type = None

\* C9: a request issues exactly one storage operation and never a second
\* one: when the attempt fails the request is answered 500 in that same step.
C9_OneAttempt ==
    \A r \in Slots :
        LET q == req[r]
        IN  /\ q.ops <= 1
            /\ q.pc = "done" => q.ops = 1
            /\ q.failed => q.pc = "done" /\ q.status = 500 /\ q.ops = 1

\* A request whose single attempt failed and was answered 500.
C9_Witness ==
    \E r \in Slots :
        /\ req[r].route = "health" /\ req[r].pc = "done"
        /\ req[r].failed /\ req[r].ops = 1 /\ req[r].status = 500

\* C10: /list answers 200 only once the enumeration is exhausted; when the
\* enumeration fails, also after it yielded objects, the answer is 500 with
\* the fields error and timestamp alone.
C10_NoPartialListing ==
    \A r \in Slots :
        LET q == req[r]
        IN  (q.route = "list" /\ q.pc = "done") =>
              /\ q.failed => q.status = 500 /\ DOMAIN q.body = {"error", "timestamp"}
              /\ q.status = 200 =>
                    /\ q.cursor = Len(q.yielded)
                    /\ q.cursor <= Len(Listing(q))
                    /\ q.stable => q.cursor = Len(Listing(q))

\* A listing that failed after the enumeration had yielded an object.
C10_Witness ==
    \E r \in Slots :
        /\ req[r].route = "list" /\ req[r].pc = "done" /\ req[r].failed
        /\ Len(req[r].yielded) > 0 /\ req[r].status = 500

\* Startup ended without the service: the import raised.
Aborted == phase \in {"config_error", "client_error"}

\* No route has served or is serving a request.
NothingServed == \A r \in Slots : req[r] = IdleReq

\* C2 as stated: startup succeeds if and only if the account name is a
\* non-empty string, so the process aborts only when the name is empty or
\* missing.
C2_AbortsOnlyWithoutName ==
    /\ Aborted => ~Truthy(env["AZURE_STORAGE_ACCOUNT_NAME"])
    /\ phase = "serving" => Truthy(env["AZURE_STORAGE_ACCOUNT_NAME"])

\* C2, amended: startup succeeds only if the account name is a non-empty
\* string. With an empty or missing name the process aborts before the client
\* is constructed, before a port is bound and before a route serves; with a
\* non-empty name it passes validation, and it reaches the serving state
\* unless constructing the credential or the client fails, which aborts it
\* as well, again with no port bound and no request served.
C2_StartupNeedsAccountName ==
    LET named == Truthy(env["AZURE_STORAGE_ACCOUNT_NAME"])
    IN  /\ ~named => /\ phase \in {"import", "loaded", "config_error"}
                     /\ blob_service_client = None /\ port = None /\ NothingServed
        /\ named => phase # "config_error"
        /\ Aborted => blob_service_client = None /\ port = None /\ NothingServed
        /\ phase = "validated" => ENABLED InitClient
        /\ phase = "ready" => blob_service_client # None /\ ENABLED Main
        /\ phase = "serving" => named /\ blob_service_client # None /\ port = Some(8080)
        /\ ~NothingServed => phase = "serving"

\* The process was started with an empty account name and has aborted.
C2_Witness ==
    /\ env["AZURE_STORAGE_ACCOUNT_NAME"] = Some("")
    /\ phase = "config_error"

\* The container name a successful response reports.
Reported(r) == req[r].body.container

Answered200(r) == req[r].pc = "done" /\ req[r].status = 200

\* C3 as stated: with STORAGE_ACCOUNT_NAME set to a non-empty value and
\* STORAGE_CONTAINER_NAME unset, startup succeeds and the handlers use the
\* container "data" and report the account name of that variable.
C3_SpecVariables ==
    (Truthy(env["STORAGE_ACCOUNT_NAME"]) /\ env["STORAGE_CONTAINER_NAME"] = None) =>
        /\ phase # "config_error"
        /\ \A r \in Slots :
              /\ req[r].container \in {None, Some("data")}
              /\ Answered200(r) => Reported(r) = "data"
              /\ (Answered200(r) /\ req[r].route = "health") =>
                    req[r].body.storage_account = Get(env["STORAGE_ACCOUNT_NAME"])

\* C3, amended: the two variables are AZURE_STORAGE_ACCOUNT_NAME and
\* AZURE_STORAGE_CONTAINER_NAME. With the first set to a non-empty value and
\* the second unset, startup passes validation and every handler addresses
\* and reports the container "data"; in every case the account name and the
\* container name the handlers use and report are the values of those two
\* variables.
C3_CodeVariables ==
    LET account   == env["AZURE_STORAGE_ACCOUNT_NAME"]
        container == env["AZURE_STORAGE_CONTAINER_NAME"]
    IN  /\ (Truthy(account) /\ container = None) =>
              /\ phase # "config_error"
              /\ \A r \in Slots :
                    /\ req[r].container \in {None, Some("data")}
                    /\ Answered200(r) => Reported(r) = "data"
        /\ \A r \in Slots :
              /\ (req[r].container # None /\ container # None) => req[r].container = container
              /\ (Answered200(r) /\ container # None) => Reported(r) = Get(container)
              /\ (Answered200(r) /\ req[r].route = "health") =>
                    req[r].body.storage_account = Get(account)

\* acct1 and no container name: an upload went to "data" and says so.
C3_Witness ==
    /\ env["AZURE_STORAGE_ACCOUNT_NAME"] = Some("acct1")
    /\ env["AZURE_STORAGE_CONTAINER_NAME"] = None
    /\ \E r \in Slots :
          /\ req[r].route = "upload" /\ Answered200(r) /\ Reported(r) = "data"
          /\ req[r].blob_name \in Names(containers["data"])

\* A successful upload, answered.
Uploaded(r) == req[r].route = "upload" /\ Answered200(r)

\* The positions at which the container holds an object named `name`.
Holding(blobs, name) == { i \in 1..Len(blobs) : blobs[i].name = name }

\* t occurs in s as a contiguous part.
Embeds(s, t) == \E i \in 0..(Len(s) - Len(t)) : SubSeq(s, i + 1, i + Len(t)) = t

\* C5: of two successful uploads, those whose clock readings differ have
\* different blob names and leave two objects; those with the same reading
\* have the same blob name and leave one object of that name; and writing
\* under a name the container already holds raises no error.
C5_NamesFollowReadings ==
    /\ \A r1, r2 \in Slots :
          (r1 # r2 /\ Uploaded(r1) /\ Uploaded(r2)) =>
             LET q1 == req[r1]
                 q2 == req[r2]
             IN  IF q1.reading # q2.reading
                 THEN /\ q1.body.blob_name # q2.body.blob_name
                      /\ Cardinality(Holding(Listing(q1), q1.body.blob_name)) = 1
                      /\ Cardinality(Holding(Listing(q2), q2.body.blob_name)) = 1
                 ELSE /\ q1.body.blob_name = q2.body.blob_name
                      /\ Cardinality(Holding(Listing(q1), q1.body.blob_name)) = 1
    /\ \A r \in Slots :
          (req[r].route = "upload" /\ req[r].pc = "write"
             /\ req[r].blob_name \in Names(Listing(req[r]))) =>
                UploadError(containers, req[r].container, req[r].blob_name, Overwrite, None) = None

\* Two uploads with the same reading, both answered 200.
C5_Witness ==
    \E r1, r2 \in Slots :
        /\ r1 # r2 /\ Uploaded(r1) /\ Uploaded(r2)
        /\ req[r1].reading = req[r2].reading
        /\ req[r1].body.blob_name = req[r2].body.blob_name

\* C6 as stated: every successful upload creates an object distinct from the
\* object of every other upload.
C6_EveryUploadDistinct ==
    \A r1, r2 \in Slots :
        (r1 # r2 /\ Uploaded(r1) /\ Uploaded(r2)) => req[r1].body.blob_name # req[r2].body.blob_name

\* Every object of the container is one it held at the start or the object
\* of a successful upload, and no name occurs twice.
OnlyUploadsAdded(c) ==
    /\ \A i \in 1..Len(containers[c]) :
          \/ containers[c][i] \in {File1, BBin, Earlier}
          \/ \E r \in Slots : Uploaded(r) /\ req[r].body.blob_name = containers[c][i].name
    /\ \A i, j \in 1..Len(containers[c]) :
          containers[c][i].name = containers[c][j].name => i = j

\* A step keeps every object where it is, and changes only the one object a
\* successful upload of this step writes.
OnlyOwnObjectWritten(c) ==
    /\ Len(containers'[c]) >= Len(containers[c])
    /\ \A i \in 1..Len(containers[c]) :
          /\ containers'[c][i].name = containers[c][i].name
          /\ containers'[c][i] # containers[c][i] =>
                \E r \in Slots : /\ req[r].pc = "write" /\ Uploaded(r)'
                                 /\ req[r].blob_name = containers[c][i].name

\* C6, amended: in any interleaving, a successful upload leaves exactly one
\* object under its own name, of the size of its own content; uploads whose
\* clock readings differ write different objects, uploads with the same
\* reading write the same one; no step removes, renames or moves an object,
\* or changes an object other than the one it uploads. The container grows
\* by one object per distinct new name, not by one per call.
C6_AppendOnlyPerReading ==
    /\ [](\A r \in Slots :
             Uploaded(r) =>
                /\ Cardinality(Holding(Listing(req[r]), req[r].blob_name)) = 1
                /\ \A i \in Holding(Listing(req[r]), req[r].blob_name) :
                      Listing(req[r])[i].size = Len(Utf8(req[r].content))
                /\ \A r2 \in Slots :
                      Uploaded(r2) =>
                         (req[r].reading = req[r2].reading <=> req[r].blob_name = req[r2].blob_name))
    /\ [](\A c \in ExistingContainers : OnlyUploadsAdded(c))
    /\ [][\A c \in ExistingContainers : OnlyOwnObjectWritten(c)]_vars

\* Two uploads ran at once with different readings and both succeeded.
C6_Witness ==
    \E r1, r2 \in Slots :
        /\ r1 # r2 /\ Uploaded(r1) /\ Uploaded(r2)
        /\ req[r1].reading = Some(1) /\ req[r2].reading = Some(0)
        /\ Len(containers["data"]) = 2
        /\ containers["data"][1].name = req[r1].blob_name
        /\ containers["data"][2].name = req[r2].blob_name

\* A /health or /list handler takes a step for request r.
ReadStep(r) ==
    /\ req[r].route \in {"health", "list"}
    /\ req'[r].pc # req[r].pc \/ req'[r].cursor # req[r].cursor

\* A stable listing, answered 200.
Listed(r) == req[r].route = "list" /\ Answered200(r) /\ req[r].stable

\* C7: a step of /health or /list, successful or not, leaves the objects of
\* every container and the process configuration as they were; successful
\* listings of a container that did not change meanwhile report the same
\* container, blob_count and blobs.
C7_ReadOnly ==
    /\ [][(\E r \in Slots : ReadStep(r)) =>
             UNCHANGED <<containers, env, STORAGE_ACCOUNT_NAME, CONTAINER_NAME,
                         blob_service_client, port, phase>>]_vars
    /\ [](\A r1, r2 \in Slots :
             (Listed(r1) /\ Listed(r2)) =>
                /\ req[r1].body.container = req[r2].body.container
                /\ req[r1].body.blob_count = req[r2].body.blob_count
                /\ req[r1].body.blobs = req[r2].body.blobs)

\* A health check and a listing of a non-empty container, both answered 200.
C7_Witness ==
    \E r1, r2 \in Slots :
        /\ req[r1].route = "health" /\ Answered200(r1)
        /\ Listed(r2) /\ req[r2].body.blob_count = 2

\* C8: on a 200 response of /upload, size is the number of bytes the storage
\* service holds for the object, the UTF-8 length of the content; the response
\* timestamp is the clock reading of line 238, and the blob name and the
\* content embed that same reading.
C8_SizeAndSingleReading ==
    \A r \in Slots :
        Uploaded(r) =>
           LET q   == req[r]
               iso == IsoFormat(UtcNow(Get(q.reading)))
           IN  /\ q.body.size = Len(Utf8(q.content))
               /\ \E i \in 1..Len(Listing(q)) :
                     /\ Listing(q)[i].name = q.body.blob_name
                     /\ Listing(q)[i].size = q.body.size
               /\ q.body.timestamp = iso
               /\ Embeds(q.body.blob_name, iso)
               /\ Embeds(q.content, iso)

\* An upload answered 200 after the clock had moved past its reading.
C8_Witness ==
    \E r \in Slots :
        /\ Uploaded(r) /\ req[r].reading = Some(0)
        /\ \E i \in 1..Len(Listing(req[r])) :
              /\ Listing(req[r])[i].name = req[r].blob_name
              /\ Listing(req[r])[i].last_modified = Some(UtcNow(1))

====
